---- MODULE Spec2Model ----
(***************************************************************************)
(* State-migration benchmark: the service replicas (app/server.py), the    *)
(* load clients (app/client.py) and the migration controller               *)
(* (benchmark/orchestrator).                                               *)
(*                                                                         *)
(* Two specifications are given over the same variables:                   *)
(*   SpecServer - the HTTP API of the replicas driven by arbitrary         *)
(*                requests (ingest, POST /state, pull_state);              *)
(*   Spec       - one benchmark run: load_config, run_servers,             *)
(*                run_clients, MigrationController.run.                    *)
(***************************************************************************)
EXTENDS Integers, Sequences, FiniteSets, TLC

(***************************************************************************)
(* Bounds of the model.                                                    *)
(***************************************************************************)
\* highest seq a request carries (each client of a run sends 1..MaxSeq)
MaxSeq == 3
\* number of load clients of a run
NumClients == 2
\* highest counter value carried by a snapshot pushed with POST /state
MaxPushCounter == 2
\* highest seq of an ingest request sent to a replica directly
MaxReqSeq == 2

Servers == {"server_a", "server_b"}
Clients == 1..NumClients

(***************************************************************************)
(* JSON values of the fields the code converts with int(): an integer, a   *)
(* missing field (dict.get returns the default / None), or a value int()   *)
(* rejects (a non-numeric string).                                         *)
(***************************************************************************)
JInt(n) == [t |-> "int", v |-> n]
JAbsent == [t |-> "absent", v |-> 0]
JBad == [t |-> "str", v |-> 0]

\* int(d.get(field, default)): [ok |-> FALSE] stands for the ValueError
IntOr(j, default) ==
    CASE j.t = "int" -> [ok |-> TRUE, v |-> j.v]
      [] j.t = "absent" -> [ok |-> TRUE, v |-> default]
      [] OTHER -> [ok |-> FALSE, v |-> 0]

Max(a, b) == IF a >= b THEN a ELSE b

(***************************************************************************)
(* Strings are sequences of one-character strings, so that len() is Len.   *)
(* A blob is a function from keys (strings) to payload strings; EmptyBlob  *)
(* is a missing or empty blob.                                             *)
(***************************************************************************)
Payload(n) == [i \in 1..n |-> "x"]
EmptyBlob == [k \in {} |-> <<>>]

\* str(counter) of ingest, and the inverse int(k) of pull_state, which
\* fails on a key that is not a decimal number
KeyInts == 0..(NumClients * MaxSeq + MaxPushCounter + 1)
StrOfInt(n) == ToString(n)
IsIntKey(k) == \E i \in KeyInts : ToString(i) = k
IntOfKey(k) == CHOOSE i \in KeyInts : ToString(i) = k

RECURSIVE SumLen(_, _)
SumLen(blob, keys) ==
    IF keys = {} THEN 0
    ELSE LET k == CHOOSE x \in keys : TRUE
         IN Len(blob[k]) + SumLen(blob, keys \ {k})

\* _blob_size_bytes: total length of the values of the mapping
_blob_size_bytes(blob) == SumLen(blob, DOMAIN blob)

(***************************************************************************)
(* The replica state (STATE of server.py: counter, last_seq, blob) and     *)
(* its handlers.                                                           *)
(***************************************************************************)
FreshState == [counter |-> 0, last_seq |-> -1, blob |-> EmptyBlob]

\* A variant of _merge_state that adds the counters instead of keeping the
\* larger one.
MergeSum(st, data) ==
    LET c == IntOr(data.counter, 0)
        l == IntOr(data.last_seq, -1)
    IN IF ~c.ok \/ ~l.ok THEN st
       ELSE [counter |-> st.counter + c.v,
             last_seq |-> Max(st.last_seq, l.v),
             blob |-> [k \in DOMAIN st.blob \cup DOMAIN data.blob |->
                          IF k \in DOMAIN data.blob THEN data.blob[k]
                          ELSE st.blob[k]]]

\* A variant of _merge_state that overwrites counter and last_seq with the
\* incoming values.
MergeOverwrite(st, data) ==
    LET c == IntOr(data.counter, 0)
        l == IntOr(data.last_seq, -1)
    IN IF ~c.ok \/ ~l.ok THEN st
       ELSE [counter |-> c.v,
             last_seq |-> l.v,
             blob |-> [k \in DOMAIN st.blob \cup DOMAIN data.blob |->
                          IF k \in DOMAIN data.blob THEN data.blob[k]
                          ELSE st.blob[k]]]

\* A variant of _merge_state that replaces the blob by the incoming one.
MergeReplacesBlob(st, data) ==
    LET c == IntOr(data.counter, 0)
        l == IntOr(data.last_seq, -1)
    IN IF ~c.ok THEN st
       ELSE IF ~l.ok THEN [st EXCEPT !.counter = Max(st.counter, c.v)]
       ELSE [counter |-> Max(st.counter, c.v),
             last_seq |-> Max(st.last_seq, l.v),
             blob |-> data.blob]

\* _merge_state: the state after merging data. The assignments run in
\* order, so an int() that raises leaves the earlier assignments in place.
_merge_state(st, data) ==
    LET c == IntOr(data.counter, 0)
        l == IntOr(data.last_seq, -1)
    IN IF ~c.ok THEN st
       ELSE IF ~l.ok THEN [st EXCEPT !.counter = Max(st.counter, c.v)]
       ELSE [counter |-> Max(st.counter, c.v),
             last_seq |-> Max(st.last_seq, l.v),
             blob |-> [k \in DOMAIN st.blob \cup DOMAIN data.blob |->
                          IF k \in DOMAIN data.blob THEN data.blob[k]
                          ELSE st.blob[k]]]

\* A variant of ingest that also accepts seq = last_seq.
IngestAcceptEqual(st, payload) ==
    LET s == IntOr(payload.seq, -1)
    IN IF s.ok /\ s.v >= st.last_seq
       THEN [counter |-> st.counter + 1,
             last_seq |-> s.v,
             blob |-> [k \in DOMAIN st.blob \cup {StrOfInt(st.counter + 1)} |->
                          IF k = StrOfInt(st.counter + 1) THEN payload.blob
                          ELSE st.blob[k]]]
       ELSE st

\* ingest: the state after POST /ingest with the given payload
ingest(st, payload) ==
    LET s == IntOr(payload.seq, -1)
    IN IF s.ok /\ s.v > st.last_seq
       THEN [counter |-> st.counter + 1,
             last_seq |-> s.v,
             blob |-> [k \in DOMAIN st.blob \cup {StrOfInt(st.counter + 1)} |->
                          IF k = StrOfInt(st.counter + 1) THEN payload.blob
                          ELSE st.blob[k]]]
       ELSE st


(***************************************************************************)
(* pull_state.                                                             *)
(***************************************************************************)
\* _as_int: None for a missing value and for one int() rejects
_as_int(j) == IF j.t = "int" THEN j ELSE JAbsent

\* Python truthiness of a request field: None and 0 are falsy
Truthy(j) == j.t = "str" \/ (j.t = "int" /\ j.v # 0)

\* a or b
PyOr(a, b) == IF Truthy(a) THEN a ELSE b

\* the two bounds of the counter range, as pull_state parses them
MinArg(payload) == _as_int(payload.min_counter_exclusive)
MaxArg(payload) ==
    _as_int(PyOr(payload.max_counter_inclusive, payload.max_counter))

\* the keys of remote_blob that pass the counter-range filter
FilteredKeys(remote_blob, min, max) ==
    {k \in DOMAIN remote_blob :
        /\ IsIntKey(k)
        /\ ~(min.t = "int" /\ IntOfKey(k) <= min.v)
        /\ ~(max.t = "int" /\ IntOfKey(k) > max.v)}

\* filtered_blob
FilterBlob(remote_blob, min, max) ==
    [k \in FilteredKeys(remote_blob, min, max) |-> remote_blob[k]]

\* A variant of import_payload whose counter is the number of entries that
\* passed the filter.
ImportPayloadCountsEntries(remote_counter, remote_last_seq, filtered_blob) ==
    [counter |-> JInt(Cardinality(DOMAIN filtered_blob)),
     last_seq |-> JInt(remote_last_seq),
     blob |-> filtered_blob]

\* import_payload
ImportPayload(remote_counter, remote_last_seq, filtered_blob) ==
    [counter |-> JInt(remote_counter),
     last_seq |-> JInt(remote_last_seq),
     blob |-> filtered_blob]

(***************************************************************************)
(* Variables.                                                              *)
(***************************************************************************)
VARIABLES
    cfg,        \* the configuration of the run (strategy, payload_bytes)
    pc,         \* position of the orchestrator (run_benchmark, run)
    State,      \* State of each replica
    net,        \* attachment of each container to the bench network
    clientSeq,  \* seq of each client's last request (0: none sent)
    rpc,        \* the pull_state request in flight, its fetched snapshot
    marker,     \* precopy: the marker read from the source's metadata
    report,     \* what run() returned
    trace,      \* the protocol operations of the run so far, in order
    xfer,       \* the blob keys and bytes each pull of the run merged
    attempts,   \* how many of the ingest attempts of Scenario a fresh
                \* replica has received, -1 once its requests differ from it
    lastReq,    \* the last state-changing request each replica handled
    rows,       \* the telemetry records parsed from the client logs
    win,        \* the downtime window handed to the MetricsCollector
    out,        \* what a call of MetricsCollector.collect computed
    clock       \* the orchestrator's clock, the timestamps run() has read
                \* from it and the windows it returned

vars == <<cfg, pc, State, net, clientSeq, rpc, marker, report, trace, xfer,
          attempts, lastReq, rows, win, out, clock>>

\* the variables of the MetricsCollector
collector == <<rows, win, out>>

NoInfo == [imported |-> FALSE, state_size_bytes |-> 0,
           source_counter |-> 0, dest_counter |-> 0]
\* the body of a pull_state request without bounds
NoBounds == [min_counter_exclusive |-> JAbsent,
             max_counter_inclusive |-> JAbsent,
             max_counter |-> JAbsent]
IdleRpc == [stage |-> "idle", dest |-> "", src |-> "",
            payload |-> NoBounds,
            min |-> JAbsent, max |-> JAbsent,
            snap |-> FreshState, merged |-> {}, status |-> 0,
            info |-> NoInfo]
NoData == [counter |-> JAbsent, last_seq |-> JAbsent, blob |-> EmptyBlob]
NoReq == [kind |-> "none", seq |-> JAbsent, body |-> <<>>,
          data |-> NoData, rep |-> 0, status |-> 0, ack |-> FALSE]
NoReport == [returned |-> FALSE, source_counter |-> 0, dest_counter |-> 0,
             diff |-> 0, state_size_bytes |-> 0]
NoWindow == [start_ts |-> 0, end_ts |-> 0]
\* MigrationWindow(start_ts, end_ts)
MigrationWindow(start_ts, end_ts) == [start_ts |-> start_ts, end_ts |-> end_ts]
\* the clock before run(): no timestamp read (-1), no window returned
NoClock == [now |-> 0, total_start |-> -1, initial_start |-> -1,
            initial_end |-> -1, downtime_start |-> -1, downtime_end |-> -1,
            windows |-> <<>>]
\* a call of the orchestrator (Docker API, HTTP request, sleep) takes time
Tick(c) == [c EXCEPT !.now = @ + 1]
NoOut == [called |-> FALSE]

(***************************************************************************)
(* The request handlers as steps of a replica.                             *)
(***************************************************************************)
\* the ingest attempts of the duplicate-suppression scenario
Scenario == <<1, 1, 2, 3, 2>>

\* the answer to POST /ingest: ack is True whether or not the request was
\* applied; an int(seq) that raises is answered with 500
IngestAnswer(payload) ==
    IF IntOr(payload.seq, -1).ok THEN [status |-> 200, ack |-> TRUE]
    ELSE [status |-> 500, ack |-> FALSE]

\* the status of a request that calls _merge_state(data): an int() that
\* raises is answered with 500
MergeStatus(data) ==
    IF IntOr(data.counter, 0).ok /\ IntOr(data.last_seq, -1).ok THEN 200
    ELSE 500

\* POST /ingest at replica r
HandleIngest(r, payload) ==
    /\ State' = [State EXCEPT ![r] = ingest(State[r], payload)]
    /\ attempts' = [attempts EXCEPT ![r] =
          IF /\ @ >= 0 /\ @ < Len(Scenario)
             /\ payload.seq = JInt(Scenario[@ + 1])
          THEN @ + 1 ELSE -1]
    /\ lastReq' = [lastReq EXCEPT ![r] =
          [kind |-> "ingest", seq |-> payload.seq, body |-> payload.blob,
           data |-> NoData, rep |-> 1,
           status |-> IngestAnswer(payload).status,
           ack |-> IngestAnswer(payload).ack]]

\* _merge_state(data) at replica r, called by POST /state and pull_state
HandleMerge(r, data) ==
    /\ State' = [State EXCEPT ![r] = _merge_state(State[r], data)]
    /\ attempts' = [attempts EXCEPT ![r] = -1]
    /\ lastReq' = [lastReq EXCEPT ![r] =
          [kind |-> "merge", seq |-> JAbsent, body |-> <<>>, data |-> data,
           rep |-> IF lastReq[r].kind = "merge" /\ lastReq[r].data = data
                   THEN 2 ELSE 1,
           status |-> MergeStatus(data), ack |-> FALSE]]

\* pull_state, no source_url: 400
PullMissingUrl ==
    /\ rpc.stage = "sent" /\ rpc.src = ""
    /\ rpc' = [rpc EXCEPT !.stage = "done", !.status = 400]
    /\ UNCHANGED collector
    /\ UNCHANGED clock
    /\ UNCHANGED <<cfg, pc, State, net, clientSeq, marker, report, trace,
                   xfer, attempts, lastReq>>

\* GET /state at the source, under STATE_LOCK: s = dict(STATE) copies
\* counter and last_seq and shares the blob mapping
PullFetchCopy ==
    /\ rpc.stage = "sent" /\ rpc.src # ""
    /\ rpc' = [rpc EXCEPT !.stage = "copied",
                          !.snap = [counter |-> State[rpc.src].counter,
                                    last_seq |-> State[rpc.src].last_seq,
                                    blob |-> EmptyBlob]]
    /\ UNCHANGED collector
    /\ UNCHANGED clock
    /\ UNCHANGED <<cfg, pc, State, net, clientSeq, marker, report, trace,
                   xfer, attempts, lastReq>>

\* GET /state at the source, outside the lock: jsonify(s) serialises the
\* shared blob mapping as it is by then
PullFetchSerialize ==
    /\ rpc.stage = "copied"
    /\ rpc' = [rpc EXCEPT !.stage = "fetched",
                          !.snap.blob = State[rpc.src].blob]
    /\ UNCHANGED collector
    /\ UNCHANGED clock
    /\ UNCHANGED <<cfg, pc, State, net, clientSeq, marker, report, trace,
                   xfer, attempts, lastReq>>

\* A variant of the failed fetch that merges the source's counter and
\* last_seq into the destination before it answers.
PullFetchFailMerges ==
    /\ rpc.stage \in {"sent", "copied"} /\ rpc.src # ""
    /\ HandleMerge(rpc.dest, ImportPayload(State[rpc.src].counter,
                                           State[rpc.src].last_seq,
                                           EmptyBlob))
    /\ rpc' = [rpc EXCEPT !.stage = "done", !.status = 502,
                          !.snap = FreshState]
    /\ UNCHANGED collector
    /\ UNCHANGED clock
    /\ UNCHANGED <<cfg, pc, net, clientSeq, marker, report, trace, xfer>>

\* the fetch of the source's /state fails or is not 2xx: 502
PullFetchFail ==
    /\ rpc.stage \in {"sent", "copied"} /\ rpc.src # ""
    /\ rpc' = [rpc EXCEPT !.stage = "done", !.status = 502,
                          !.snap = FreshState]
    /\ UNCHANGED collector
    /\ UNCHANGED clock
    /\ UNCHANGED <<cfg, pc, State, net, clientSeq, marker, report, trace,
                   xfer, attempts, lastReq>>

\* pull_state after the fetch: filter the blob and merge import_payload
PullMerge ==
    /\ rpc.stage = "fetched"
    /\ LET filtered_blob == FilterBlob(rpc.snap.blob, rpc.min, rpc.max)
           import_payload == ImportPayload(rpc.snap.counter,
                                           rpc.snap.last_seq, filtered_blob)
       IN /\ HandleMerge(rpc.dest, import_payload)
          /\ rpc' = [rpc EXCEPT !.stage = "merged",
                                !.merged = DOMAIN filtered_blob]
    /\ UNCHANGED collector
    /\ UNCHANGED clock
    /\ UNCHANGED <<cfg, pc, net, clientSeq, marker, report, trace, xfer>>

\* pull_state, the answer: the size of remote_blob and the destination's
\* counter, read under STATE_LOCK after the merge released it
PullAnswer ==
    /\ rpc.stage = "merged"
    /\ rpc' = [rpc EXCEPT
          !.stage = "done", !.status = 200,
          !.info = [imported |-> TRUE,
                    state_size_bytes |-> _blob_size_bytes(rpc.snap.blob),
                    source_counter |-> rpc.snap.counter,
                    dest_counter |-> State[rpc.dest].counter]]
    /\ UNCHANGED collector
    /\ UNCHANGED clock
    /\ UNCHANGED <<cfg, pc, State, net, clientSeq, marker, report, trace,
                   xfer, attempts, lastReq>>

(***************************************************************************)
(* SpecServer: the replicas under arbitrary requests.                      *)
(***************************************************************************)
IngestPayloads ==
    [seq : {JAbsent, JBad} \cup {JInt(n) : n \in 1..MaxReqSeq},
     blob : {Payload(1)}]

PushBlobs == {EmptyBlob, ("1" :> <<"y">>) @@ ("k" :> <<"y", "y">>)}

\* snapshots pushed with POST /state: complete ones, and ones with one
\* field missing or not an integer
PushData ==
    {[counter |-> c, last_seq |-> JInt(1), blob |-> b] :
        c \in {JAbsent, JBad, JInt(MaxPushCounter)}, b \in PushBlobs}
    \cup
    {[counter |-> JInt(MaxPushCounter), last_seq |-> l, blob |-> b] :
        l \in {JAbsent, JBad}, b \in PushBlobs}

\* the counter ranges of a pull_state request
PullRanges ==
    {<<JAbsent, JAbsent>>, <<JAbsent, JInt(0)>>, <<JAbsent, JInt(1)>>,
     <<JInt(0), JAbsent>>, <<JInt(1), JAbsent>>, <<JInt(0), JInt(1)>>}

PullPayloads ==
    {[min_counter_exclusive |-> r[1], max_counter_inclusive |-> r[2],
      max_counter |-> JAbsent] : r \in PullRanges}

ReqIngest(r, payload) ==
    /\ HandleIngest(r, payload)
    /\ UNCHANGED collector
    /\ UNCHANGED clock
    /\ UNCHANGED <<cfg, pc, net, clientSeq, rpc, marker, report, trace, xfer>>

ReqPostState(r, data) ==
    /\ HandleMerge(r, data)
    /\ UNCHANGED collector
    /\ UNCHANGED clock
    /\ UNCHANGED <<cfg, pc, net, clientSeq, rpc, marker, report, trace, xfer>>

ReqPullState(d, src, payload) ==
    /\ rpc.stage = "idle"
    /\ rpc' = [IdleRpc EXCEPT !.stage = "sent", !.dest = d, !.src = src,
                              !.payload = payload,
                              !.min = MinArg(payload), !.max = MaxArg(payload)]
    /\ UNCHANGED collector
    /\ UNCHANGED clock
    /\ UNCHANGED <<cfg, pc, State, net, clientSeq, marker, report, trace,
                   xfer, attempts, lastReq>>

ReqPullDone ==
    /\ rpc.stage = "done"
    /\ rpc' = IdleRpc
    /\ UNCHANGED collector
    /\ UNCHANGED clock
    /\ UNCHANGED <<cfg, pc, State, net, clientSeq, marker, report, trace,
                   xfer, attempts, lastReq>>

InitServer ==
    /\ cfg = [strategy |-> "precopy", dest_preboot |-> TRUE]
    /\ pc = "serving"
    /\ State = [r \in Servers |-> FreshState]
    /\ net = [r \in Servers |-> "plain"]
    /\ clientSeq = [c \in Clients |-> 0]
    /\ rpc = IdleRpc
    /\ marker = JAbsent
    /\ report = NoReport
    /\ trace = <<>>
    /\ xfer = <<>>
    /\ attempts = [r \in Servers |-> 0]
    /\ lastReq = [r \in Servers |-> NoReq]
    /\ rows = <<>>
    /\ win = NoWindow
    /\ out = NoOut
    /\ clock = NoClock

NextServer ==
    \/ /\ State["server_a"].counter < MaxReqSeq
       /\ ReqIngest("server_a", [seq |-> JInt(State["server_a"].counter + 1),
                                 blob |-> Payload(1)])
    \/ \E payload \in IngestPayloads : ReqIngest("server_b", payload)
    \/ \E data \in PushData : ReqPostState("server_b", data)
    \/ \E payload \in PullPayloads :
          ReqPullState("server_b", "server_a", payload)
    \/ \E payload \in PullPayloads : ReqPullState("server_b", "", payload)
    \/ PullMissingUrl
    \/ PullFetchCopy
    \/ PullFetchSerialize
    \/ PullFetchFail
    \/ PullMerge
    \/ PullAnswer
    \/ ReqPullDone

SpecServer == InitServer /\ [][NextServer]_vars


(***************************************************************************)
(* Spec: one benchmark run (cli.run_benchmark).                            *)
(***************************************************************************)
\* payload_bytes of the clients' requests
PayloadBytes == 2

\* migration.strategy as written in the configuration file
FileStrategies == {"precopy", "Postcopy", "cold", "live"}

\* str.lower() on the strategies of FileStrategies
Lower(s) == IF s = "Postcopy" THEN "postcopy" ELSE s

Op(name, arg) == [op |-> name, arg |-> arg]

Init ==
    /\ cfg \in [strategy : FileStrategies, dest_preboot : BOOLEAN]
    /\ pc = "load_config"
    /\ State = [r \in Servers |-> FreshState]
    /\ net = [r \in Servers |-> "absent"]
    /\ clientSeq = [c \in Clients |-> 0]
    /\ rpc = IdleRpc
    /\ marker = JAbsent
    /\ report = NoReport
    /\ trace = <<>>
    /\ xfer = <<>>
    /\ attempts = [r \in Servers |-> 0]
    /\ lastReq = [r \in Servers |-> NoReq]
    /\ rows = <<>>
    /\ win = NoWindow
    /\ out = NoOut
    /\ clock = NoClock

\* A variant of load_config without the check of migration.strategy.
StrategyAcceptedAny(strategy) == TRUE

\* load_config: _require(migration.strategy in ("precopy", "postcopy", "cold"))
StrategyAccepted(strategy) == strategy \in {"precopy", "postcopy", "cold"}

\* load_config: the strategy is lower-cased, an invalid one raises ValueError
\* before the DockerManager is created
LoadConfig ==
    /\ pc = "load_config"
    /\ cfg' = [cfg EXCEPT !.strategy = Lower(cfg.strategy)]
    /\ pc' = IF StrategyAccepted(Lower(cfg.strategy)) THEN "run_servers"
             ELSE "fatal"
    /\ UNCHANGED collector
    /\ UNCHANGED clock
    /\ UNCHANGED <<State, net, clientSeq, rpc, marker, report, trace, xfer,
                   attempts, lastReq>>

\* _disconnect_if_connected(c): disconnects a connected container; an
\* exception of the Docker call is swallowed and leaves it connected; the
\* caller says what becomes of trace and clock
Disconnect(c, next) ==
    /\ \/ net' = [net EXCEPT ![c] = "off"]
       \/ net[c] # "off" /\ net' = net
    /\ pc' = next
    /\ UNCHANGED collector
    /\ UNCHANGED <<cfg, State, clientSeq, rpc, marker, report, xfer,
                   attempts, lastReq>>

\* A variant of connect whose caller ignores the refusal and goes on.
ConnectIgnoresRefusal(c, as, next) ==
    /\ IF net[c] = "off"
       THEN net' = [net EXCEPT ![c] = as] /\ trace' = trace
       ELSE net' = net /\ trace' = Append(trace, [op |-> "failed", arg |-> pc])
    /\ pc' = next
    /\ UNCHANGED collector
    /\ clock' = Tick(clock)
    /\ UNCHANGED <<cfg, State, clientSeq, rpc, marker, report, xfer,
                   attempts, lastReq>>

\* network.connect(c) or network.connect(c, aliases=[service_alias]): the
\* Docker API refuses to connect a container that is still connected
Connect(c, as, next) ==
    /\ IF net[c] = "off"
       THEN net' = [net EXCEPT ![c] = as] /\ pc' = next /\ trace' = trace
       ELSE net' = net /\ pc' = "raised_APIError"
                      /\ trace' = Append(trace, Op("failed", pc))
    /\ UNCHANGED collector
    /\ clock' = Tick(clock)
    /\ UNCHANGED <<cfg, State, clientSeq, rpc, marker, report, xfer,
                   attempts, lastReq>>

\* run_servers: both containers are started on the network without alias
RunServers ==
    /\ pc = "run_servers"
    /\ net' = [r \in Servers |-> "plain"]
    /\ pc' = "rs_attach"
    /\ UNCHANGED collector
    /\ UNCHANGED clock
    /\ UNCHANGED <<cfg, State, clientSeq, rpc, marker, report, trace, xfer,
                   attempts, lastReq>>

\* run_servers: attach_alias(server_a)
RunServersAttachDisconnect ==
    /\ pc = "rs_attach"
    /\ trace' = Append(trace, Op("attach_alias", "server_a"))
    /\ clock' = Tick(clock)
    /\ Disconnect("server_a", "rs_attach_conn")

RunServersAttachConnect ==
    /\ pc = "rs_attach_conn"
    /\ Connect("server_a", "alias", "run_clients")

\* run_clients, MigrationController(cfg, dm), register_host_ports
RunClients ==
    /\ pc = "run_clients"
    /\ pc' = "run"
    /\ UNCHANGED collector
    /\ UNCHANGED clock
    /\ UNCHANGED <<cfg, State, net, clientSeq, rpc, marker, report, trace,
                   xfer, attempts, lastReq>>

ClientsRunning ==
    pc \notin {"load_config", "fatal", "run_servers", "rs_attach",
               "rs_attach_conn", "run_clients"}

\* client.py main loop, one iteration: the request goes to the replica
\* that holds the alias; without one the request fails (err_exc)
ClientSend(c) ==
    /\ ClientsRunning
    /\ clientSeq[c] < MaxSeq
    /\ clientSeq' = [clientSeq EXCEPT ![c] = @ + 1]
    /\ \/ \E r \in Servers :
            /\ net[r] = "alias"
            /\ HandleIngest(r, [seq |-> JInt(clientSeq[c] + 1),
                                blob |-> Payload(PayloadBytes)])
       \/ /\ \A r \in Servers : net[r] # "alias"
          /\ UNCHANGED <<State, lastReq, attempts>>
    /\ UNCHANGED collector
    /\ UNCHANGED clock
    /\ UNCHANGED <<cfg, pc, net, rpc, marker, report, trace, xfer>>

\* run: sleep(delay_s), then the strategy is dispatched; any strategy other
\* than precopy and postcopy raises ValueError. _run_precopy and
\* _run_postcopy begin alike: total_start = now_ts(); if dest_preboot is
\* False and server_b is None, dm.run_server_b() is called, a method
\* DockerManager does not have (AttributeError); then _internal_url asks
\* Docker for the source's address
Run ==
    /\ pc = "run"
    /\ pc' = IF cfg.strategy \notin {"precopy", "postcopy"}
             THEN "raised_ValueError"
             ELSE IF ~cfg.dest_preboot /\ net["server_b"] = "absent"
             THEN "raised_AttributeError"
             ELSE IF cfg.strategy = "precopy" THEN "pre_meta"
             ELSE "post_drop"
    /\ clock' = IF cfg.strategy \notin {"precopy", "postcopy"}
                THEN Tick(clock)
                ELSE [clock EXCEPT !.total_start = clock.now + 1,
                                   !.now = clock.now + 2]
    /\ UNCHANGED collector
    /\ UNCHANGED <<cfg, State, net, clientSeq, rpc, marker, report, trace,
                   xfer, attempts, lastReq>>

\* A variant of the failing request after which the alias is given back to
\* the source.
HttpFailRestoresAlias(at) ==
    /\ pc = at
    /\ pc' = "raised_HTTPError"
    /\ trace' = Append(trace, Op("failed", at))
    /\ net' = [net EXCEPT !["server_a"] = "alias"]
    /\ UNCHANGED collector
    /\ clock' = Tick(clock)
    /\ UNCHANGED <<cfg, State, clientSeq, rpc, marker, report, xfer,
                   attempts, lastReq>>

\* a request of the controller that fails (connection error, timeout, or a
\* non-2xx answer at raise_for_status): the exception leaves run()
HttpFail(at) ==
    /\ pc = at
    /\ pc' = "raised_HTTPError"
    /\ trace' = Append(trace, Op("failed", at))
    /\ UNCHANGED collector
    /\ clock' = Tick(clock)
    /\ UNCHANGED <<cfg, State, net, clientSeq, rpc, marker, report, xfer,
                   attempts, lastReq>>

\* _pull_state_remote: the request body holds the bounds that are not None
SendPull(at, next, label, min, max) ==
    /\ pc = at
    /\ rpc.stage = "idle"
    /\ LET payload == [min_counter_exclusive |-> min,
                       max_counter_inclusive |-> max,
                       max_counter |-> JAbsent]
       IN rpc' = [IdleRpc EXCEPT !.stage = "sent", !.dest = "server_b",
                                 !.src = "server_a",
                                 !.payload = payload,
                                 !.min = MinArg(payload),
                                 !.max = MaxArg(payload)]
    /\ trace' = Append(trace, Op("pull_state", label))
    /\ pc' = next
    /\ UNCHANGED collector
    /\ clock' = Tick(clock)
    /\ UNCHANGED <<cfg, State, net, clientSeq, marker, report, xfer,
                   attempts, lastReq>>

\* A variant of _pull_state_remote that goes on waiting when the answer
\* is an error.
RecvPullWaitsForSuccess(at, next) ==
    /\ pc = at
    /\ rpc.stage = "done"
    /\ rpc.status = 200
    /\ pc' = next
    /\ xfer' = Append(xfer,
          [keys |-> rpc.merged,
           bytes |-> SumLen(rpc.snap.blob, rpc.merged),
           info |-> rpc.info])
    /\ trace' = trace
    /\ rpc' = IdleRpc
    /\ UNCHANGED collector
    /\ clock' = Tick(clock)
    /\ UNCHANGED <<cfg, State, net, clientSeq, marker, report,
                   attempts, lastReq>>

\* _pull_state_remote: raise_for_status, then the JSON answer is returned
RecvPull(at, next) ==
    /\ pc = at
    /\ rpc.stage = "done"
    /\ IF rpc.status = 200
       THEN /\ pc' = next
            /\ xfer' = Append(xfer,
                  [keys |-> rpc.merged,
                   bytes |-> SumLen(rpc.snap.blob, rpc.merged),
                   info |-> rpc.info])
            /\ trace' = trace
       ELSE /\ pc' = "raised_HTTPError"
            /\ xfer' = xfer
            /\ trace' = Append(trace, Op("failed", at))
    /\ rpc' = IdleRpc
    /\ UNCHANGED collector
    /\ clock' = Tick(clock)
    /\ UNCHANGED <<cfg, State, net, clientSeq, marker, report,
                   attempts, lastReq>>

\* _consistency
_consistency(source_counter, dest_counter, state_size_bytes) ==
    [returned |-> TRUE,
     source_counter |-> source_counter,
     dest_counter |-> dest_counter,
     diff |-> IF source_counter >= dest_counter
              THEN source_counter - dest_counter
              ELSE dest_counter - source_counter,
     state_size_bytes |-> state_size_bytes]

\* the last answer to a pull of this run (final_info, pull_info)
LastInfo == xfer[Len(xfer)].info

(* ---------------------------- _run_precopy ---------------------------- *)
\* initial_meta = _get_state_meta(server_a); marker = int(counter)
PrecopyMeta ==
    /\ pc = "pre_meta"
    /\ marker' = JInt(State["server_a"].counter)
    /\ trace' = Append(trace, Op("get_state_meta", "server_a"))
    /\ pc' = "pre_pull1"
    /\ UNCHANGED collector
    /\ clock' = [Tick(clock) EXCEPT !.initial_start = clock.now]
    /\ UNCHANGED <<cfg, State, net, clientSeq, rpc, report, xfer, attempts,
                   lastReq>>

PrecopyInitialPull ==
    SendPull("pre_pull1", "pre_pull1_wait", "initial", JAbsent, marker)

\* A variant of the precopy run that goes from the initial pull straight to
\* the final pull.
PrecopyInitialPullDoneSkipsDrop == RecvPull("pre_pull1_wait", "pre_pull2")

PrecopyInitialPullDone == RecvPull("pre_pull1_wait", "pre_drop")

\* A variant of the precopy cut that leaves the source's alias in place.
PrecopyDropSkipped ==
    /\ pc = "pre_drop"
    /\ trace' = Append(trace, Op("drop_alias", "server_a"))
    /\ pc' = "pre_pull2"
    /\ UNCHANGED collector
    /\ clock' = [Tick(clock) EXCEPT !.initial_end = clock.now,
                                    !.downtime_start = clock.now]
    /\ UNCHANGED <<cfg, State, net, clientSeq, rpc, marker, report, xfer,
                   attempts, lastReq>>

\* A variant of the precopy cut that does not read downtime_start before
\* it drops the alias.
PrecopyDropDisconnectUnstamped ==
    /\ pc = "pre_drop"
    /\ trace' = Append(trace, Op("drop_alias", "server_a"))
    /\ clock' = [Tick(clock) EXCEPT !.initial_end = clock.now]
    /\ Disconnect("server_a", "pre_drop_conn")

\* initial_end = now_ts(); downtime_start = now_ts(); drop_alias(server_a)
PrecopyDropDisconnect ==
    /\ pc = "pre_drop"
    /\ trace' = Append(trace, Op("drop_alias", "server_a"))
    /\ clock' = [Tick(clock) EXCEPT !.initial_end = clock.now,
                                    !.downtime_start = clock.now]
    /\ Disconnect("server_a", "pre_drop_conn")

\* A variant of drop_alias that reconnects the source with the alias.
PrecopyDropConnectKeepsAlias ==
    /\ pc = "pre_drop_conn"
    /\ Connect("server_a", "alias", "pre_pull2")

PrecopyDropConnect ==
    /\ pc = "pre_drop_conn"
    /\ Connect("server_a", "plain", "pre_pull2")

PrecopyFinalPull ==
    SendPull("pre_pull2", "pre_pull2_wait", "final", marker, JAbsent)

PrecopyFinalPullDone == RecvPull("pre_pull2_wait", "pre_attach")

PrecopyAttachDisconnect ==
    /\ pc = "pre_attach"
    /\ trace' = Append(trace, Op("attach_alias", "server_b"))
    /\ clock' = Tick(clock)
    /\ Disconnect("server_b", "pre_attach_conn")

PrecopyAttachConnect ==
    /\ pc = "pre_attach_conn"
    /\ Connect("server_b", "alias", "pre_return")

\* A variant of _run_precopy whose initial window is closed with
\* downtime_end.
PrecopyReturnInitialToEnd ==
    /\ pc = "pre_return"
    /\ report' = _consistency(LastInfo.source_counter, LastInfo.dest_counter,
                              LastInfo.state_size_bytes)
    /\ pc' = "returned"
    /\ LET downtime_end == clock.now
           total_end == downtime_end
       IN clock' = [clock EXCEPT
             !.downtime_end = downtime_end,
             !.windows =
                 [total |-> MigrationWindow(clock.total_start, total_end),
                  downtime |-> MigrationWindow(clock.downtime_start,
                                               downtime_end),
                  initial |-> MigrationWindow(clock.initial_start,
                                              downtime_end)]]
    /\ UNCHANGED collector
    /\ UNCHANGED <<cfg, State, net, clientSeq, rpc, marker, trace, xfer,
                   attempts, lastReq>>

\* downtime_end = now_ts(); total_end = downtime_end; the consistency
\* report and the three windows are returned
PrecopyReturn ==
    /\ pc = "pre_return"
    /\ report' = _consistency(LastInfo.source_counter, LastInfo.dest_counter,
                              LastInfo.state_size_bytes)
    /\ pc' = "returned"
    /\ LET downtime_end == clock.now
           total_end == downtime_end
       IN clock' = [clock EXCEPT
             !.downtime_end = downtime_end,
             !.windows =
                 [total |-> MigrationWindow(clock.total_start, total_end),
                  downtime |-> MigrationWindow(clock.downtime_start,
                                               downtime_end),
                  initial |-> MigrationWindow(clock.initial_start,
                                              clock.initial_end)]]
    /\ UNCHANGED collector
    /\ UNCHANGED <<cfg, State, net, clientSeq, rpc, marker, trace, xfer,
                   attempts, lastReq>>

(* ---------------------------- _run_postcopy --------------------------- *)
\* downtime_start = now_ts(); drop_alias(server_a)
PostcopyDropDisconnect ==
    /\ pc = "post_drop"
    /\ trace' = Append(trace, Op("drop_alias", "server_a"))
    /\ clock' = [Tick(clock) EXCEPT !.downtime_start = clock.now]
    /\ Disconnect("server_a", "post_drop_conn")

\* A variant of drop_alias that reconnects the source with the alias.
PostcopyDropConnectKeepsAlias ==
    /\ pc = "post_drop_conn"
    /\ Connect("server_a", "alias", "post_pull")

PostcopyDropConnect ==
    /\ pc = "post_drop_conn"
    /\ Connect("server_a", "plain", "post_pull")

PostcopyPull ==
    SendPull("post_pull", "post_pull_wait", "full", JAbsent, JAbsent)

PostcopyPullDone == RecvPull("post_pull_wait", "post_attach")

PostcopyAttachDisconnect ==
    /\ pc = "post_attach"
    /\ trace' = Append(trace, Op("attach_alias", "server_b"))
    /\ clock' = Tick(clock)
    /\ Disconnect("server_b", "post_attach_conn")

PostcopyAttachConnect ==
    /\ pc = "post_attach_conn"
    /\ Connect("server_b", "alias", "post_return")

\* A variant of _run_postcopy whose initial window runs from
\* downtime_start to total_start.
PostcopyReturnInitialFromCut ==
    /\ pc = "post_return"
    /\ report' = _consistency(LastInfo.source_counter, LastInfo.dest_counter,
                              LastInfo.state_size_bytes)
    /\ pc' = "returned"
    /\ LET downtime_end == clock.now
           total_end == downtime_end
       IN clock' = [clock EXCEPT
             !.downtime_end = downtime_end,
             !.windows =
                 [total |-> MigrationWindow(clock.total_start, total_end),
                  downtime |-> MigrationWindow(clock.downtime_start,
                                               downtime_end),
                  initial |-> MigrationWindow(clock.downtime_start,
                                              clock.total_start)]]
    /\ UNCHANGED collector
    /\ UNCHANGED <<cfg, State, net, clientSeq, rpc, marker, trace, xfer,
                   attempts, lastReq>>

\* downtime_end = now_ts(); total_end = downtime_end; the initial window is
\* the empty window at total_start
PostcopyReturn ==
    /\ pc = "post_return"
    /\ report' = _consistency(LastInfo.source_counter, LastInfo.dest_counter,
                              LastInfo.state_size_bytes)
    /\ pc' = "returned"
    /\ LET downtime_end == clock.now
           total_end == downtime_end
       IN clock' = [clock EXCEPT
             !.downtime_end = downtime_end,
             !.windows =
                 [total |-> MigrationWindow(clock.total_start, total_end),
                  downtime |-> MigrationWindow(clock.downtime_start,
                                               downtime_end),
                  initial |-> MigrationWindow(clock.total_start,
                                              clock.total_start)]]
    /\ UNCHANGED collector
    /\ UNCHANGED <<cfg, State, net, clientSeq, rpc, marker, trace, xfer,
                   attempts, lastReq>>

(* ------------------------ run_benchmark, after run --------------------- *)
\* what run() returns: (total window, downtime window, initial window,
\* consistency)
RunReturn == <<"total_window", "downtime_window", "initial_window",
               "consistency">>

\* run_benchmark: win, consistency = mc.run(server_a, server_b) unpacks the
\* returned tuple into two names, which raises ValueError unless the tuple
\* has two components; collect() is reached from "cli_collect" only
CliUnpack ==
    /\ pc = "returned"
    /\ pc' = IF Len(RunReturn) = 2 THEN "cli_collect"
             ELSE "cli_raised_ValueError"
    /\ UNCHANGED collector
    /\ UNCHANGED clock
    /\ UNCHANGED <<cfg, State, net, clientSeq, rpc, marker, report, trace,
                   xfer, attempts, lastReq>>

Next ==
    \/ LoadConfig
    \/ RunServers
    \/ RunServersAttachDisconnect
    \/ RunServersAttachConnect
    \/ RunClients
    \/ \E c \in Clients : ClientSend(c)
    \/ Run
    \/ PrecopyMeta
    \/ HttpFail("pre_meta")
    \/ PrecopyInitialPull
    \/ HttpFail("pre_pull1")
    \/ PrecopyInitialPullDone
    \/ PrecopyDropDisconnect
    \/ PrecopyDropConnect
    \/ PrecopyFinalPull
    \/ HttpFail("pre_pull2")
    \/ PrecopyFinalPullDone
    \/ PrecopyAttachDisconnect
    \/ PrecopyAttachConnect
    \/ PrecopyReturn
    \/ PostcopyDropDisconnect
    \/ PostcopyDropConnect
    \/ PostcopyPull
    \/ HttpFail("post_pull")
    \/ PostcopyPullDone
    \/ PostcopyAttachDisconnect
    \/ PostcopyAttachConnect
    \/ PostcopyReturn
    \/ CliUnpack
    \/ PullFetchCopy
    \/ PullFetchSerialize
    \/ PullFetchFail
    \/ PullMerge
    \/ PullAnswer

Spec == Init /\ [][Next]_vars

\* the steps of the orchestrator and of the replica that serves its pull:
\* all of Next but the clients' requests
Progress ==
    \/ LoadConfig
    \/ RunServers
    \/ RunServersAttachDisconnect
    \/ RunServersAttachConnect
    \/ RunClients
    \/ Run
    \/ PrecopyMeta
    \/ PrecopyInitialPull
    \/ PrecopyInitialPullDone
    \/ PrecopyDropDisconnect
    \/ PrecopyDropConnect
    \/ PrecopyFinalPull
    \/ PrecopyFinalPullDone
    \/ PrecopyAttachDisconnect
    \/ PrecopyAttachConnect
    \/ PrecopyReturn
    \/ PostcopyDropDisconnect
    \/ PostcopyDropConnect
    \/ PostcopyPull
    \/ PostcopyPullDone
    \/ PostcopyAttachDisconnect
    \/ PostcopyAttachConnect
    \/ PostcopyReturn
    \/ CliUnpack
    \/ PullFetchCopy
    \/ PullFetchSerialize
    \/ PullFetchFail
    \/ PullMerge
    \/ PullAnswer

\* The run under the scheduling the code has: run_benchmark is one thread
\* that executes its statements in order, every call it makes returns or
\* raises (requests timeout=30 and timeout=60, the Docker client's default
\* timeout, sleep(delay_s)), and the replica answers a request it has
\* received (its own fetch has timeout=30). The clients are not required to
\* go on sending.
SpecLive == Init /\ [][Next]_vars /\ WF_vars(Progress)

(***************************************************************************)
(* SpecCollector: the MetricsCollector on the parsed client logs.  Times   *)
(* are counted in tenths of a second; of a telemetry record the model      *)
(* keeps send_ts and status, the two fields the computations read.         *)
(***************************************************************************)
MaxRows == 4

Statuses == {"ok", "err_http", "err_exc"}
TsValues == {90, 95, 100, 105, 110, 119, 120, 122, 125}
Telemetry == [send_ts : TsValues, status : Statuses]
\* the windows handed to the collector; now_ts is time.time(), which may
\* step backwards between the two readings of a window
Windows == {[start_ts |-> 100, end_ts |-> 120],
            [start_ts |-> 105, end_ts |-> 105],
            [start_ts |-> 120, end_ts |-> 100]}

\* max(xs, default=d) and min(xs, default=d)
MaxOf(S, d) == IF S = {} THEN d ELSE CHOOSE x \in S : \A y \in S : y <= x
MinOf(S, d) == IF S = {} THEN d ELSE CHOOSE x \in S : \A y \in S : x <= y
SendTs(rs) == {rs[i].send_ts : i \in DOMAIN rs}
IsOk(r) == r.status = "ok"
CountOk(rs) == Len(SelectSeq(rs, IsOk))
\* seconds (in tenths) * 1000.0: milliseconds
ToMs(t) == t * 100

\* A variant of _window_slices whose window is open at its end.
WindowSlicesOpenEnd(rs, w) ==
    LET InPre(r) == r.send_ts < w.start_ts
        InDuring(r) == w.start_ts <= r.send_ts /\ r.send_ts < w.end_ts
        InPost(r) == r.send_ts > w.end_ts
    IN [pre |-> SelectSeq(rs, InPre), during |-> SelectSeq(rs, InDuring),
        post |-> SelectSeq(rs, InPost)]

\* _window_slices
_window_slices(rs, w) ==
    LET InPre(r) == r.send_ts < w.start_ts
        InDuring(r) == w.start_ts <= r.send_ts /\ r.send_ts <= w.end_ts
        InPost(r) == r.send_ts > w.end_ts
    IN [pre |-> SelectSeq(rs, InPre), during |-> SelectSeq(rs, InDuring),
        post |-> SelectSeq(rs, InPost)]

\* A variant of _compute_downtime that measures from the first ok record
\* before the window instead of the last one.
DowntimeFromFirstOk(rs, w) ==
    LET Before(r) == r.send_ts < w.start_ts /\ IsOk(r)
        After(r) == r.send_ts > w.end_ts /\ IsOk(r)
        last_ok_ts == MinOf(SendTs(SelectSeq(rs, Before)), w.start_ts)
        first_ok_ts == MinOf(SendTs(SelectSeq(rs, After)), w.end_ts)
    IN Max(0, first_ok_ts - last_ok_ts)

\* _compute_downtime
_compute_downtime(rs, w) ==
    LET Before(r) == r.send_ts < w.start_ts /\ IsOk(r)
        After(r) == r.send_ts > w.end_ts /\ IsOk(r)
        last_ok_ts == MaxOf(SendTs(SelectSeq(rs, Before)), w.start_ts)
        first_ok_ts == MinOf(SendTs(SelectSeq(rs, After)), w.end_ts)
    IN Max(0, first_ok_ts - last_ok_ts)

\* A variant of _compute_latency_before that counts from the latest record
\* before the window start, ok or not.
LatencyBeforeFromAnyRecord(rs, w) ==
    LET Before(r) == r.send_ts < w.start_ts
        last_ok_ts == MaxOf(SendTs(SelectSeq(rs, Before)), w.start_ts)
    IN Max(0, w.start_ts - last_ok_ts)

\* _compute_latency_before
_compute_latency_before(rs, w) ==
    LET Before(r) == r.send_ts < w.start_ts /\ IsOk(r)
        last_ok_ts == MaxOf(SendTs(SelectSeq(rs, Before)), w.start_ts)
    IN Max(0, w.start_ts - last_ok_ts)

\* A variant of _compute_packet_metrics whose totals count the records of
\* the window and after it only.
PacketMetricsFromWindowOn(rs, w) ==
    LET s == _window_slices(rs, w)
        during_lost == Max(0, Len(s.during) - CountOk(s.during))
        post_lost == Max(0, Len(s.post) - CountOk(s.post))
    IN [lost |-> during_lost + post_lost,
        total_packets_successful |-> CountOk(s.during) + CountOk(s.post),
        total_packets |-> Len(s.during) + Len(s.post),
        slices |-> s]

\* _compute_packet_metrics: the first component returned is
\* during_lost + post_lost (loss_pct_during and loss_pct_post are computed
\* and dropped); slices keeps the locals pre, during, post, which
\* debug_counts counts
_compute_packet_metrics(rs, w) ==
    LET s == _window_slices(rs, w)
        during_lost == Max(0, Len(s.during) - CountOk(s.during))
        post_lost == Max(0, Len(s.post) - CountOk(s.post))
    IN [lost |-> during_lost + post_lost,
        total_packets_successful |-> CountOk(rs),
        total_packets |-> Len(rs),
        slices |-> s]

\* the fields of the dataclass Metrics
MetricsFields == {"run_id", "strategy", "migration_time_ms",
                  "client_downtime_ms", "latency_before_downtime_ms",
                  "packet_loss_during_migration_pct",
                  "total_packets_successful", "total_packets",
                  "state_size_bytes"}

\* Metrics(**kwargs): the generated __init__ raises TypeError for a keyword
\* that is no field and for a field without value
Metrics(kwargs) ==
    IF DOMAIN kwargs = MetricsFields
    THEN [produced |-> TRUE, record |-> kwargs]
    ELSE [produced |-> FALSE, raised |-> "TypeError"]

\* collect: the locals of the call and what Metrics(...) makes of them
collect(rs, w, state_diff, strategy) ==
    LET latency_before_s == _compute_latency_before(rs, w)
        downtime_s == _compute_downtime(rs, w)
        client_downtime_ms == ToMs(downtime_s)
        latency_before_downtime_ms == ToMs(latency_before_s)
        migration_time_ms == client_downtime_ms + latency_before_downtime_ms
        pm == _compute_packet_metrics(rs, w)
        kwargs == [run_id |-> "run_id",
                   strategy |-> strategy,
                   migration_time_ms |-> migration_time_ms,
                   client_downtime_ms |-> client_downtime_ms,
                   migration_time_before_ms |-> latency_before_downtime_ms,
                   packet_loss_during_migration_pct |-> pm.lost,
                   total_packets_successful |-> pm.total_packets_successful,
                   total_packets |-> pm.total_packets,
                   state_size_bytes |-> state_diff]
    IN [called |-> TRUE,
        latency_before_s |-> latency_before_s,
        downtime_s |-> downtime_s,
        slices |-> pm.slices,
        kwargs |-> kwargs,
        metrics |-> Metrics(kwargs)]

\* _parse_client_logs, one well-formed CSV line of a client's log: the
\* record is appended; a client's lines are in the order of their send_ts
ParseLine(r) ==
    /\ ~out.called
    /\ Len(rows) < MaxRows
    /\ rows # <<>> => rows[Len(rows)].send_ts <= r.send_ts
    /\ rows' = Append(rows, r)
    /\ UNCHANGED <<cfg, pc, State, net, clientSeq, rpc, marker, report, trace,
                   xfer, attempts, lastReq, win, out, clock>>

\* the StateConsistency records a run may return: nothing transferred, the
\* destination level with the source, the destination one update behind
Consistencies == {_consistency(0, 0, 0),
                  _consistency(1, 1, PayloadBytes),
                  _consistency(2, 1, PayloadBytes)}

\* run_benchmark: collect on the parsed records and the window, with
\* state_diff = consistency.diff
Collect ==
    /\ ~out.called
    /\ \E consistency \in Consistencies :
          /\ report' = consistency
          /\ out' = collect(rows, win, consistency.diff, cfg.strategy)
    /\ UNCHANGED <<cfg, pc, State, net, clientSeq, rpc, marker, trace,
                   xfer, attempts, lastReq, rows, win, clock>>

InitCollector ==
    /\ cfg = [strategy |-> "precopy", dest_preboot |-> TRUE]
    /\ pc = "collecting"
    /\ State = [r \in Servers |-> FreshState]
    /\ net = [r \in Servers |-> "plain"]
    /\ clientSeq = [c \in Clients |-> 0]
    /\ rpc = IdleRpc
    /\ marker = JAbsent
    /\ report = NoReport
    /\ trace = <<>>
    /\ xfer = <<>>
    /\ attempts = [r \in Servers |-> 0]
    /\ lastReq = [r \in Servers |-> NoReq]
    /\ rows = <<>>
    /\ win \in Windows
    /\ out = NoOut
    /\ clock = NoClock

NextCollector ==
    \/ \E r \in Telemetry : ParseLine(r)
    \/ Collect

SpecCollector == InitCollector /\ [][NextCollector]_vars

(***************************************************************************)
(* SpecAlias: attach_alias and drop_alias of the DockerManager, called in  *)
(* any order on the two running replicas.                                  *)
(***************************************************************************)
\* number of calls of attach_alias and drop_alias
MaxCalls == 4

AliasOps == {"attach_alias", "drop_alias"}

\* the calls of attach_alias and drop_alias made so far
AliasCalls == SelectSeq(trace, LAMBDA o : o.op \in AliasOps)

\* network.connect(container, aliases=[service_alias]) for attach_alias,
\* network.connect(container) for drop_alias
AliasTarget(op) == IF op = "attach_alias" THEN "alias" ELSE "plain"

\* A variant of attach_alias and drop_alias without the disconnect.
AliasCallConnectOnly(op, c) ==
    /\ pc = "alias_idle"
    /\ Len(AliasCalls) < MaxCalls
    /\ pc' = "alias_conn"
    /\ net' = net
    /\ trace' = Append(trace, Op(op, c))
    /\ clock' = Tick(clock)
    /\ UNCHANGED collector
    /\ UNCHANGED <<cfg, State, clientSeq, rpc, marker, report, xfer,
                   attempts, lastReq>>

\* attach_alias(c), drop_alias(c): _disconnect_if_connected(c) disconnects c
AliasCallDisconnect(op, c) ==
    /\ pc = "alias_idle"
    /\ Len(AliasCalls) < MaxCalls
    /\ Disconnect(c, "alias_conn")
    /\ net'[c] = "off"
    /\ trace' = Append(trace, Op(op, c))
    /\ clock' = Tick(clock)

\* attach_alias(c), drop_alias(c): the Docker call of
\* _disconnect_if_connected(c) raises and the exception is swallowed
AliasCallDisconnectSwallowed(op, c) ==
    /\ pc = "alias_idle"
    /\ Len(AliasCalls) < MaxCalls
    /\ Disconnect(c, "alias_conn")
    /\ net' = net
    /\ trace' = Append(Append(trace, Op(op, c)), Op("swallowed", c))
    /\ clock' = Tick(clock)

\* the call of attach_alias or drop_alias in progress
AliasCall == AliasCalls[Len(AliasCalls)]

\* attach_alias, drop_alias: network.connect with or without the alias
AliasCallConnect ==
    /\ pc = "alias_conn"
    /\ Connect(AliasCall.arg, AliasTarget(AliasCall.op), "alias_idle")

InitAlias ==
    /\ cfg = [strategy |-> "precopy", dest_preboot |-> TRUE]
    /\ pc = "alias_idle"
    /\ State = [r \in Servers |-> FreshState]
    /\ net = [r \in Servers |-> "plain"]
    /\ clientSeq = [c \in Clients |-> 0]
    /\ rpc = IdleRpc
    /\ marker = JAbsent
    /\ report = NoReport
    /\ trace = <<>>
    /\ xfer = <<>>
    /\ attempts = [r \in Servers |-> 0]
    /\ lastReq = [r \in Servers |-> NoReq]
    /\ rows = <<>>
    /\ win = NoWindow
    /\ out = NoOut
    /\ clock = NoClock

NextAlias ==
    \/ \E op \in AliasOps : \E c \in Servers : AliasCallDisconnect(op, c)
    \/ \E op \in AliasOps : \E c \in Servers :
          AliasCallDisconnectSwallowed(op, c)
    \/ AliasCallConnect

SpecAlias == InitAlias /\ [][NextAlias]_vars

(***************************************************************************)
(* Properties.                                                             *)
(***************************************************************************)

\* C3: Idempotent merge. When a replica merges the snapshot it merged in its
\* previous request (POST /state twice, or pull_state twice with the same
\* import payload), the second merge leaves counter, last_seq and blob as
\* they were after the first.
IdempotentMerge ==
    [][\A r \in Servers :
          (lastReq'[r].kind = "merge" /\ lastReq'[r].rep = 2)
              => State'[r] = State[r]]_vars

\* a replica has merged the same non-empty snapshot twice in a row
IdempotentMergeWitness ==
    \E r \in Servers :
        /\ lastReq[r].kind = "merge"
        /\ lastReq[r].rep = 2
        /\ DOMAIN lastReq[r].data.blob # {}
        /\ lastReq[r].data.counter.t = "int"
        /\ lastReq[r].data.counter.v > 0

\* C4: Monotonic counters. No step of any replica (ingest, POST /state,
\* pull_state, in any interleaving) decreases its counter or its last_seq.
MonotonicCounters ==
    [][\A r \in Servers :
          /\ State'[r].counter >= State[r].counter
          /\ State'[r].last_seq >= State[r].last_seq]_vars

\* a replica has merged a snapshot whose counter and last_seq are both
\* below its own
MonotonicCountersWitness ==
    \E r \in Servers :
        /\ lastReq[r].kind = "merge"
        /\ lastReq[r].data.counter.t = "int"
        /\ lastReq[r].data.last_seq.t = "int"
        /\ lastReq[r].data.counter.v < State[r].counter
        /\ lastReq[r].data.last_seq.v < State[r].last_seq


\* the keys str(lo), ..., str(hi)
KeyRange(lo, hi) == {StrOfInt(i) : i \in lo..hi}

\* C1: Zero-diff. The StateConsistency of every run that returned has
\* diff = 0: the source counter and the destination counter reported by the
\* run's last pull are equal.
ZeroDiff == report.returned => report.diff = 0

\* a run has returned its report for a source that had accepted updates
ZeroDiffWitness ==
    /\ pc = "returned"
    /\ report.returned
    /\ report.source_counter > 0
    /\ report.dest_counter = report.source_counter

\* C2: Precopy delta correctness. With marker m and final source counter f,
\* the initial pull merges exactly the entries 1..m, the final pull exactly
\* the entries m+1..f; the two sets are disjoint and their union is the
\* source's blob.
PrecopyDelta ==
    cfg.strategy = "precopy" =>
        /\ Len(xfer) >= 1 => xfer[1].keys = KeyRange(1, marker.v)
        /\ Len(xfer) >= 2 =>
              /\ xfer[2].keys =
                    KeyRange(marker.v + 1, xfer[2].info.source_counter)
              /\ xfer[1].keys \cap xfer[2].keys = {}
              /\ xfer[1].keys \cup xfer[2].keys =
                    DOMAIN State["server_a"].blob

\* C5: Duplicate suppression. An ingest changes the replica only if its seq
\* is greater than the replica's last_seq; it then raises counter by one,
\* sets last_seq to seq and stores the payload under the new counter; an
\* ingest with a greater seq is always applied. A fresh replica that has
\* received exactly the attempts 1,1,2,3,2 has counter 3.
DuplicateSuppression ==
    /\ [][\A r \in Servers :
            LET q == lastReq'[r]
                c == State[r].counter + 1
            IN /\ (q.kind = "ingest" /\ State'[r] # State[r]) =>
                     /\ q.seq.t = "int"
                     /\ q.seq.v > State[r].last_seq
                     /\ State'[r].counter = c
                     /\ State'[r].last_seq = q.seq.v
                     /\ DOMAIN State'[r].blob =
                           DOMAIN State[r].blob \cup {StrOfInt(c)}
                     /\ State'[r].blob[StrOfInt(c)] = q.body
                     /\ \A k \in DOMAIN State[r].blob \ {StrOfInt(c)} :
                           State'[r].blob[k] = State[r].blob[k]
               /\ (q.kind = "ingest" /\ q # lastReq[r] /\ q.seq.t = "int"
                      /\ q.seq.v > State[r].last_seq) =>
                     State'[r] # State[r]]_vars
    /\ [](\A r \in Servers :
             attempts[r] = Len(Scenario) => State[r].counter = 3)

\* the source has received exactly the attempts 1,1,2,3,2
DuplicateSuppressionWitness ==
    /\ attempts["server_a"] = Len(Scenario)
    /\ State["server_a"].last_seq = 3

\* C6: Every run that returns ends with the destination holding the alias
\* and the source on the network without it.
AliasAtEnd ==
    pc = "returned" =>
        /\ net["server_b"] = "alias"
        /\ net["server_a"] = "plain"

\* a run has returned
AliasAtEndWitness ==
    /\ pc = "returned"
    /\ cfg.strategy \in {"precopy", "postcopy"}
    /\ net["server_b"] = "alias"

\* the positions of the operation in the trace
Positions(name, arg) ==
    {i \in 1..Len(trace) : trace[i] = Op(name, arg)}

\* C7: A cold run executes drop of the source's alias, the full copy and
\* the attach of the destination in that order and returns a report with
\* diff = 0 whose state_size_bytes is the size of the source's blob: it is
\* never aborted before its first phase.
ColdRun ==
    cfg.strategy = "cold" =>
        /\ pc = "raised_ValueError" => Positions("drop_alias", "server_a") # {}
        /\ pc = "returned" =>
              /\ \E i \in Positions("drop_alias", "server_a") :
                 \E j \in Positions("pull_state", "full") :
                 \E k \in Positions("attach_alias", "server_b") :
                    i < j /\ j < k
              /\ report.diff = 0
              /\ report.dest_counter = State["server_a"].counter
              /\ report.state_size_bytes =
                    _blob_size_bytes(State["server_a"].blob)

RECURSIVE SumBytes(_, _)
SumBytes(xs, n) == IF n = 0 THEN 0 ELSE xs[n].bytes + SumBytes(xs, n - 1)

\* C8: The reported state_size_bytes is the number of bytes of the blob
\* entries the run's pulls merged into the destination.
SizeIsBytesCopied ==
    report.returned => report.state_size_bytes = SumBytes(xfer, Len(xfer))

\* C9: A failed metadata or pull call does not leave run() as an exception:
\* run() returns a report.
TransferFailureNotRaised == pc # "raised_HTTPError"

\* C10: With a strategy outside precopy, postcopy, cold no container is
\* attached to or detached from the alias, and no metadata fetch or pull
\* is made.
UnknownStrategyRejected ==
    Lower(cfg.strategy) \notin {"precopy", "postcopy", "cold"} =>
        /\ trace = <<>>
        /\ \A r \in Servers : net[r] = "absent"
        /\ rpc = IdleRpc
        /\ pc \in {"load_config", "fatal"}

\* load_config has rejected the strategy
UnknownStrategyRejectedWitness ==
    /\ pc = "fatal"
    /\ cfg.strategy = "live"


\* C11: once a strategy has returned its report, the orchestration goes on
\* to the Metrics record: it does not end in an error between the return of
\* run() and the call of the collector.
MetricsAfterRun ==
    report.returned => pc # "cli_raised_ValueError"

\* how often the record r occurs in the list rs
Occ(rs, r) == Cardinality({i \in DOMAIN rs : rs[i] = r})

\* C12: Window partition. For a window with start <= end every telemetry
\* record is in exactly one of pre, during, post: in pre iff send_ts < start,
\* in during iff start <= send_ts <= end, in post iff send_ts > end.
WindowPartition ==
    (out.called /\ win.start_ts <= win.end_ts) =>
        \A i \in DOMAIN rows :
            LET r == rows[i]
                n == Occ(rows, r)
            IN /\ Occ(out.slices.pre, r) =
                      IF r.send_ts < win.start_ts THEN n ELSE 0
               /\ Occ(out.slices.during, r) =
                      IF win.start_ts <= r.send_ts /\ r.send_ts <= win.end_ts
                      THEN n ELSE 0
               /\ Occ(out.slices.post, r) =
                      IF r.send_ts > win.end_ts THEN n ELSE 0
               /\ Occ(out.slices.pre, r) + Occ(out.slices.during, r)
                      + Occ(out.slices.post, r) = n

\* window [10, 12] and send_ts 9.5, 10.5, 11.9, 12.5: one pre, two during,
\* one post
WindowPartitionWitness ==
    /\ out.called
    /\ win = [start_ts |-> 100, end_ts |-> 120]
    /\ Len(rows) = 4
    /\ [i \in 1..4 |-> rows[i].send_ts] = <<95, 105, 119, 125>>
    /\ Len(out.slices.pre) = 1
    /\ Len(out.slices.during) = 2
    /\ Len(out.slices.post) = 1

\* send_ts of the latest ok record sent before the window start, the window
\* start when there is none
LatestOkBefore ==
    LET I == {i \in DOMAIN rows :
                rows[i].status = "ok" /\ rows[i].send_ts < win.start_ts}
    IN IF I = {} THEN win.start_ts
       ELSE rows[CHOOSE i \in I :
                   \A j \in I : rows[j].send_ts <= rows[i].send_ts].send_ts

\* send_ts of the earliest ok record sent after the window end, the window
\* end when there is none
EarliestOkAfter ==
    LET I == {i \in DOMAIN rows :
                rows[i].status = "ok" /\ rows[i].send_ts > win.end_ts}
    IN IF I = {} THEN win.end_ts
       ELSE rows[CHOOSE i \in I :
                   \A j \in I : rows[i].send_ts <= rows[j].send_ts].send_ts

\* C13: Downtime is the send_ts of the earliest ok record after the window
\* end minus the send_ts of the latest ok record before the window start,
\* with the window's own bounds where such a record is missing, floored at
\* zero: it is never negative and, for start <= end, at least end - start.
DowntimeValue ==
    out.called =>
        /\ out.downtime_s =
               IF EarliestOkAfter - LatestOkBefore >= 0
               THEN EarliestOkAfter - LatestOkBefore ELSE 0
        /\ out.downtime_s >= 0
        /\ win.start_ts <= win.end_ts =>
               out.downtime_s >= win.end_ts - win.start_ts

\* ok at 9.0, errors at 10.5 and 11.0, ok at 12.2, window [10, 12]: 3.2 s
DowntimeValueWitness ==
    /\ out.called
    /\ win = [start_ts |-> 100, end_ts |-> 120]
    /\ rows = <<[send_ts |-> 90, status |-> "ok"],
                [send_ts |-> 105, status |-> "err_http"],
                [send_ts |-> 110, status |-> "err_exc"],
                [send_ts |-> 122, status |-> "ok"]>>
    /\ out.downtime_s = 32

\* the records sent inside the window, and those of them with status ok
DuringCount ==
    Cardinality({i \in DOMAIN rows : /\ win.start_ts <= rows[i].send_ts
                                      /\ rows[i].send_ts <= win.end_ts})
DuringOkCount ==
    Cardinality({i \in DOMAIN rows : /\ win.start_ts <= rows[i].send_ts
                                      /\ rows[i].send_ts <= win.end_ts
                                      /\ rows[i].status = "ok"})

\* C14: the packet-loss value handed to the Metrics record is
\* (during_count - during_ok_count) / during_count * 100 rounded to the
\* nearest integer, and 0 when no record was sent inside the window.
PacketLossPct ==
    out.called =>
        out.kwargs.packet_loss_during_migration_pct =
            IF DuringCount = 0 THEN 0
            ELSE (200 * (DuringCount - DuringOkCount) + DuringCount)
                     \div (2 * DuringCount)

\* C15: Totals. total_packets is the number of all parsed records and
\* total_packets_successful the number of those with status ok, whatever
\* the window handed to the collector.
Totals ==
    out.called =>
        /\ out.kwargs.total_packets = Len(rows)
        /\ out.kwargs.total_packets_successful =
               Cardinality({i \in DOMAIN rows : rows[i].status = "ok"})
        /\ \A w \in Windows :
               LET pm == _compute_packet_metrics(rows, w)
               IN /\ pm.total_packets = out.kwargs.total_packets
                  /\ pm.total_packets_successful =
                         out.kwargs.total_packets_successful

\* records before, inside and after the window, some ok and some not
TotalsWitness ==
    /\ out.called
    /\ Len(out.slices.pre) > 0
    /\ Len(out.slices.during) > 0
    /\ Len(out.slices.post) > 0
    /\ out.kwargs.total_packets_successful > 0
    /\ out.kwargs.total_packets_successful < out.kwargs.total_packets


\* the operations of the strategy run: trace without the attach_alias of
\* run_servers
RunOps == IF trace = <<>> THEN <<>> ELSE SubSeq(trace, 2, Len(trace))

PrecopyOps == <<Op("get_state_meta", "server_a"), Op("pull_state", "initial"),
                Op("drop_alias", "server_a"), Op("pull_state", "final"),
                Op("attach_alias", "server_b")>>

PostcopyOps == <<Op("drop_alias", "server_a"), Op("pull_state", "full"),
                 Op("attach_alias", "server_b")>>

\* C17: Precopy order. A precopy run that returned has executed exactly:
\* fetch of the source's metadata, pull up to the marker, drop of the
\* source's alias, pull above the marker, attach of the destination; and
\* the source holds the alias during the metadata fetch and the initial
\* pull.
PrecopyOrder ==
    /\ (cfg.strategy = "precopy" /\ report.returned) => RunOps = PrecopyOps
    /\ pc \in {"pre_meta", "pre_pull1", "pre_pull1_wait"} =>
           /\ net["server_a"] = "alias"
           /\ net["server_b"] # "alias"

PrecopyOrderWitness ==
    /\ cfg.strategy = "precopy"
    /\ report.returned
    /\ Len(xfer) = 2
    /\ State["server_b"].counter > 0

\* C18: Postcopy order. The first operation of a postcopy run is the drop of
\* the source's alias; the pull is sent after it, runs while no replica holds
\* the alias and copies every entry of the source; the alias is attached to
\* the destination only after the pull has returned.
PostcopyOrder ==
    cfg.strategy = "postcopy" =>
        /\ report.returned => RunOps = PostcopyOps
        /\ \A i \in Positions("pull_state", "full") :
               /\ i = 3
               /\ trace[2] = Op("drop_alias", "server_a")
        /\ rpc.stage # "idle" => \A r \in Servers : net[r] # "alias"
        /\ xfer # <<>> => xfer[1].keys = DOMAIN State["server_a"].blob
        /\ \A i \in Positions("attach_alias", "server_b") :
               /\ i = 4
               /\ Len(xfer) = 1
               /\ rpc.stage = "idle"

PostcopyOrderWitness ==
    /\ cfg.strategy = "postcopy"
    /\ report.returned
    /\ Len(xfer) = 1
    /\ xfer[1].keys # {}
    /\ net["server_b"] = "alias"

\* C19: Postcopy resync. A postcopy run that returned has pulled the source
\* state into the destination again after the alias was attached to the
\* destination.
PostcopyResync ==
    (cfg.strategy = "postcopy" /\ report.returned) =>
        \E i \in Positions("attach_alias", "server_b") :
            \E j \in (i + 1)..Len(trace) : trace[j].op = "pull_state"

\* the operations of the run that did not fail
DoneOps == SelectSeq(RunOps, LAMBDA o : o.op # "failed")

\* the operations the strategy of the run consists of
PlanOps == CASE cfg.strategy = "precopy" -> PrecopyOps
             [] cfg.strategy = "postcopy" -> PostcopyOps
             [] OTHER -> <<>>

\* C20: Stop at the failed phase. A failure (metadata fetch, pull, alias
\* drop or attach) is the last operation of its run, and the operations
\* executed so far are a prefix of the strategy's phases in their order: no
\* phase is skipped, reordered or executed after a failure.
StopAtFailure ==
    /\ \A i \in DOMAIN trace : trace[i].op = "failed" => i = Len(trace)
    /\ Len(DoneOps) <= Len(PlanOps)
    /\ DoneOps = SubSeq(PlanOps, 1, Len(DoneOps))
    /\ report.returned => DoneOps = PlanOps

\* the final pull of a precopy run failed after the alias was dropped
StopAtFailureWitness ==
    /\ cfg.strategy = "precopy"
    /\ pc = "raised_HTTPError"
    /\ trace # <<>>
    /\ trace[Len(trace)] = Op("failed", "pre_pull2_wait")
    /\ Len(xfer) = 1


\* the snapshots replica server_b may be given to merge: the bodies of POST
\* /state and the import payload of a full pull from server_a as it is now
MergeInputs ==
    PushData \cup {ImportPayload(State["server_a"].counter,
                                 State["server_a"].last_seq,
                                 State["server_a"].blob)}

\* C21: Merge is order-independent and never regresses state. From every
\* state of a replica, merging S1 then S2 gives the counter, last_seq and
\* blob of merging S2 then S1, and a merge keeps every blob entry the
\* replica held, with its value.
MergeOrderIndependent ==
    LET st == State["server_b"]
    IN /\ \A S1 \in MergeInputs, S2 \in MergeInputs :
              _merge_state(_merge_state(st, S1), S2) =
                  _merge_state(_merge_state(st, S2), S1)
       /\ \A S \in MergeInputs :
              \A k \in DOMAIN st.blob :
                  /\ k \in DOMAIN _merge_state(st, S).blob
                  /\ _merge_state(st, S).blob[k] = st.blob[k]


\* C22: pull_state filter. For every min_counter_exclusive and every
\* max_counter_inclusive of a request (absent or an integer >= 0, 0
\* included) the entries merged into the destination are exactly the source
\* entries whose integer key k has k > min (if given) and k <= max (if
\* given).
PullFilter ==
    rpc.stage = "merged" =>
        rpc.merged =
            {k \in DOMAIN rpc.snap.blob :
                /\ IsIntKey(k)
                /\ rpc.payload.min_counter_exclusive.t = "int" =>
                       IntOfKey(k) > rpc.payload.min_counter_exclusive.v
                /\ rpc.payload.max_counter_inclusive.t = "int" =>
                       IntOfKey(k) <= rpc.payload.max_counter_inclusive.v}


\* C23: the state_size_bytes a pull_state call answers is the total length
\* of the blob entries that passed the call's filter and were merged into
\* the destination.
PullSizeIsBytesMerged ==
    (rpc.stage = "done" /\ rpc.status = 200) =>
        rpc.info.state_size_bytes = SumLen(rpc.snap.blob, rpc.merged)


\* C25: Snapshot atomicity. A snapshot GET /state returns while ingests are
\* applied reflects one instant of the replica: server_a has only served
\* ingests, so the blob of a snapshot of it has exactly the entries
\* 1..counter.
SnapshotAtomic ==
    (rpc.stage = "fetched" /\ rpc.src = "server_a") =>
        DOMAIN rpc.snap.blob = KeyRange(1, rpc.snap.counter)


\* C24: Completeness. Once the destination has taken over the alias at the
\* end of a precopy or postcopy run, its blob holds every entry of the
\* source's blob and its counter and last_seq are at least the source's.
NothingMissing ==
    (pc \in {"pre_return", "post_return"} \/ report.returned) =>
        /\ \A k \in DOMAIN State["server_a"].blob :
               /\ k \in DOMAIN State["server_b"].blob
               /\ State["server_b"].blob[k] = State["server_a"].blob[k]
        /\ State["server_b"].counter >= State["server_a"].counter
        /\ State["server_b"].last_seq >= State["server_a"].last_seq

\* a precopy run whose two pulls both copied entries has returned
NothingMissingWitness ==
    /\ cfg.strategy = "precopy"
    /\ report.returned
    /\ Len(xfer) = 2
    /\ marker.v > 0
    /\ xfer[1].keys # {}
    /\ xfer[2].keys # {}

\* C26: Single alias holder. From the start of the servers to the end of the
\* migration at most one replica holds the public alias, and the
\* destination holds it only after the source's alias was dropped.
SingleAliasHolder ==
    /\ Cardinality({r \in Servers : net[r] = "alias"}) <= 1
    /\ net["server_b"] = "alias" =>
           /\ Positions("drop_alias", "server_a") # {}
           /\ \A i \in Positions("drop_alias", "server_a") :
                  \A j \in Positions("attach_alias", "server_b") : i < j

\* the destination holds the alias after the migration, the source does not
SingleAliasHolderWitness ==
    /\ report.returned
    /\ net["server_b"] = "alias"
    /\ net["server_a"] = "plain"
    /\ State["server_b"].counter > State["server_a"].counter


\* C27: Downtime window. From the start of a strategy run on, every instant
\* at which no replica holds the alias lies inside the downtime window:
\* downtime_start has been read, at or before that instant, and downtime_end
\* has not; the window reported is made of these two readings.
DowntimeCoversNoAlias ==
    /\ (clock.total_start >= 0 /\ \A r \in Servers : net[r] # "alias") =>
           /\ clock.downtime_start >= 0
           /\ clock.downtime_start <= clock.now
           /\ clock.downtime_end = -1
    /\ report.returned =>
           /\ clock.windows.downtime =
                  MigrationWindow(clock.downtime_start, clock.downtime_end)
           /\ clock.downtime_end <= clock.now

\* a run has returned whose downtime window is not empty
DowntimeCoversNoAliasWitness ==
    /\ report.returned
    /\ net["server_b"] = "alias"
    /\ clock.windows.downtime.start_ts < clock.windows.downtime.end_ts

BootInsideTotalWindow ==
    (~cfg.dest_preboot /\ net["server_b"] # "absent") =>
        clock.total_start >= 0

\* the failures of the run's calls, in order
Failures == SelectSeq(trace, LAMBDA o : o.op = "failed")

\* C31: Retry. A metadata or state-transfer call that fails is tried once
\* more: a run that a transport failure has aborted has seen the call fail
\* twice, the first attempt and its retry.
RetriedOnce ==
    pc = "raised_HTTPError" => Len(Failures) = 2

\* C32: Default fields. A merge whose snapshot lacks counter or last_seq,
\* or carries a value that is not an integer, is answered without error
\* and leaves the replica's counter (its last_seq) as it was.
MergeDefaults ==
    [][\A data \in PushData :
          ReqPostState("server_b", data) =>
              /\ lastReq'["server_b"].status = 200
              /\ data.counter.t # "int" =>
                    State'["server_b"].counter = State["server_b"].counter
              /\ data.last_seq.t # "int" =>
                    State'["server_b"].last_seq = State["server_b"].last_seq]_vars

\* C33: Failed pull. A pull_state request that fails (no source_url: 400;
\* the fetch of the source's /state fails: 502) answers imported = false,
\* has merged nothing and leaves the destination's counter, last_seq and
\* blob as they were.
FailedPullLeavesState ==
    [][(rpc.stage # "done" /\ rpc'.stage = "done" /\ rpc'.status # 200) =>
          /\ rpc'.status = IF rpc.src = "" THEN 400 ELSE 502
          /\ ~rpc'.info.imported
          /\ rpc.stage \in {"sent", "copied"}
          /\ rpc'.merged = {}
          /\ State'[rpc.dest] = State[rpc.dest]]_vars

\* a pull has failed at a destination that is behind its source
FailedPullLeavesStateWitness ==
    /\ rpc.stage = "done"
    /\ rpc.status = 502
    /\ ~rpc.info.imported
    /\ State[rpc.src].counter > State[rpc.dest].counter
    /\ DOMAIN State[rpc.src].blob # DOMAIN State[rpc.dest].blob

\* the positions of the controller at a pull made after the alias was
\* dropped: the final pull of precopy, the full pull of postcopy
PullsAfterDrop == {"pre_pull2", "pre_pull2_wait", "post_pull",
                   "post_pull_wait"}

\* C34: Pull failure after the drop. When a pull made after the source's
\* alias was dropped fails, the run is aborted: the alias is neither
\* attached to the destination nor given back to the source, no report is
\* returned and no replica holds the alias.
AbortAfterDrop ==
    (/\ pc = "raised_HTTPError"
     /\ trace[Len(trace)].arg \in PullsAfterDrop) =>
        /\ \A r \in Servers : net[r] = "plain"
        /\ Positions("attach_alias", "server_b") = {}
        /\ Cardinality(Positions("attach_alias", "server_a")) = 1
        /\ \A i \in Positions("attach_alias", "server_a") :
           \A j \in Positions("drop_alias", "server_a") : i < j
        /\ ~report.returned

\* the full pull of a postcopy run failed while the source held updates
AbortAfterDropWitness ==
    /\ cfg.strategy = "postcopy"
    /\ pc = "raised_HTTPError"
    /\ trace[Len(trace)].arg \in PullsAfterDrop
    /\ State["server_a"].counter > 0
    /\ State["server_b"].counter = 0

\* C35: Ack means applied. An ingest request of a client that the replica
\* holding the alias answers with ack = true has raised that replica's
\* counter by one and stored its payload under the new counter.
AckMeansApplied ==
    [][\A c \in Clients : \A r \in Servers :
          (/\ clientSeq'[c] = clientSeq[c] + 1
           /\ net[r] = "alias"
           /\ lastReq'[r].ack) =>
              /\ State'[r].counter = State[r].counter + 1
              /\ StrOfInt(State'[r].counter) \in DOMAIN State'[r].blob
              /\ State'[r].blob[StrOfInt(State'[r].counter)] =
                    Payload(PayloadBytes)]_vars

\* C36: Metrics state size. The state_size_bytes that collect hands to the
\* Metrics record of a run is the state_size_bytes of the StateConsistency
\* the run returned.
MetricsStateSize ==
    out.called => out.kwargs.state_size_bytes = report.state_size_bytes

\* the attachment attach_alias and drop_alias have left replica r with: that
\* of the last call for r, whatever calls preceded it
AliasExpected(r) ==
    LET S == {i \in DOMAIN trace : trace[i].op \in AliasOps /\ trace[i].arg = r}
    IN IF S = {} THEN "plain"
       ELSE AliasTarget(trace[CHOOSE i \in S : \A j \in S : j <= i].op)

\* C37: Alias idempotence. After any sequence of completed attach_alias
\* and drop_alias calls every replica has the attachment its last call
\* asked for, so a call repeated on a replica already in that state leaves
\* it there; and a call raises only when Docker failed to disconnect the
\* container, never because the container already was in the target state.
AliasIdempotent ==
    /\ pc = "alias_idle" => \A r \in Servers : net[r] = AliasExpected(r)
    /\ pc = "raised_APIError" =>
          /\ Len(trace) >= 3
          /\ trace[Len(trace) - 1].op = "swallowed"
          /\ trace[Len(trace) - 2] = AliasCall

\* attach_alias twice on server_a, then drop_alias on server_b, which never
\* held the alias
AliasIdempotentWitness ==
    /\ pc = "alias_idle"
    /\ trace = <<Op("attach_alias", "server_a"), Op("attach_alias", "server_a"),
                 Op("drop_alias", "server_b")>>
    /\ net = [r \in Servers |-> IF r = "server_a" THEN "alias" ELSE "plain"]

\* C38: Latency before downtime is the window start minus the send_ts of
\* the latest ok record sent before the start; it is 0 when no ok record
\* precedes the start, it is never negative, and collect reports it in
\* milliseconds.
LatencyBefore ==
    out.called =>
        /\ out.latency_before_s = win.start_ts - LatestOkBefore
        /\ (\A i \in DOMAIN rows :
               ~(rows[i].status = "ok" /\ rows[i].send_ts < win.start_ts))
              => out.latency_before_s = 0
        /\ out.latency_before_s >= 0
        /\ out.kwargs.migration_time_before_ms = ToMs(out.latency_before_s)

\* an ok record, then a failed one, both before the window start
LatencyBeforeWitness ==
    /\ out.called
    /\ out.latency_before_s > 0
    /\ \E i, j \in DOMAIN rows :
          /\ rows[i].status = "ok"
          /\ rows[j].status # "ok"
          /\ rows[i].send_ts < rows[j].send_ts
          /\ rows[j].send_ts < win.start_ts

\* the positions at which run() has been left by an exception
Aborted == {"raised_ValueError", "raised_AttributeError", "raised_HTTPError",
            "raised_APIError"}

\* C39: Termination. Every run() that is called eventually returns its
\* report or is left by an exception: no phase waits forever.
RunTerminates ==
    (pc = "run") ~> (report.returned \/ pc \in Aborted)

\* a precopy run has returned after both pulls, with every client at its
\* last request
RunTerminatesWitness ==
    /\ cfg.strategy = "precopy"
    /\ report.returned
    /\ Len(xfer) = 2
    /\ \A c \in Clients : clientSeq[c] = MaxSeq

====
